---------------------------- MODULE Spec2Model ----------------------------
(***************************************************************************)
(* A model of letterpwn's move pipeline (lib/letterpress-moves.js):        *)
(* getBoardPositionMap, kCombinations, flattenCombos, getMovesForBoard,    *)
(* getTopMoves, byBestMove, filterMoves and getVulnerability, over the     *)
(* adjacency table of lib/adjacent.js.                                     *)
(*                                                                         *)
(* Bitmasks are the integers the code uses (bit i = board position i).     *)
(* A string is the sequence of its one-character strings, so a word text   *)
(* such as "cab" is <<"c","a","b">>.  A wordStruct is the triple           *)
(* <<word, letters, frequency rank>> (wordStruct[0], [1], [2] in the code; *)
(* tuples are 1-based here).                                               *)
(***************************************************************************)
EXTENDS Integers, Sequences, FiniteSets

VARIABLES
  phase,                    \* position of the caller: which call has returned
  board,                    \* getMovesForBoard: argument board
  wordStructs,              \* getMovesForBoard: argument wordStructs
  moves,                    \* getMovesForBoard: the returned list of [wordStruct, bitmap]
  threw,                    \* getMovesForBoard: TRUE when the call raised a TypeError
  oursBitMask,              \* getTopMoves: argument oursBitMask
  theirsBitMask,            \* getTopMoves: argument theirsBitMask
  movesScoredForGameState,  \* getTopMoves: the mapped (scored) moves, before the sort
  sortedMoves,              \* getTopMoves: the scored moves after .sort(byBestMove)
  filteredMoves,            \* getTopMoves: what filterMoves returned
  topMoves,                 \* getTopMoves: the returned list
  bits,                     \* kCombinations: argument bits
  count,                    \* kCombinations: argument count
  kcResults,                \* kCombinations: the returned list
  posCombos,                \* flattenCombos: argument posCombos
  fcResults                 \* flattenCombos: the returned list

vars == <<phase, board, wordStructs, moves, threw, oursBitMask, theirsBitMask,
          movesScoredForGameState, sortedMoves, filteredMoves, topMoves,
          bits, count, kcResults, posCombos, fcResults>>

genVars == <<board, wordStructs, moves, threw>>
topVars == <<oursBitMask, theirsBitMask, movesScoredForGameState, sortedMoves,
             filteredMoves, topMoves>>
kcVars  == <<bits, count, kcResults>>
fcVars  == <<posCombos, fcResults>>

----------------------------------------------------------------------------
(* JavaScript's bitwise operators on the non-negative 32-bit integers the  *)
(* code handles (every mask is below 2^25, so no sign bit is ever set in   *)
(* a result).                                                              *)

RECURSIVE BitAnd(_, _)
\* a & b
BitAnd(a, b) ==
  IF a = 0 \/ b = 0 THEN 0
  ELSE (a % 2) * (b % 2) + 2 * BitAnd(a \div 2, b \div 2)

RECURSIVE BitOr(_, _)
\* a | b
BitOr(a, b) ==
  IF a = 0 THEN b
  ELSE IF b = 0 THEN a
  ELSE (IF a % 2 = 1 \/ b % 2 = 1 THEN 1 ELSE 0) + 2 * BitOr(a \div 2, b \div 2)

RECURSIVE BitAndNot(_, _)
\* a & ~b  (the complement is taken and masked in one step: ~b alone is negative)
BitAndNot(a, b) ==
  IF a = 0 THEN 0
  ELSE (a % 2) * (1 - (b % 2)) + 2 * BitAndNot(a \div 2, b \div 2)

\* Math.pow(2, i)
Pow2(i) == 2 ^ i

----------------------------------------------------------------------------
(* kCombinations(bits, count): lines 98-115.                               *)

RECURSIVE kcSkipsNothing(_, _, _, _)
\* kc as a plausible slip would write it: the recursive call restarts at i
\* instead of i + 1, so a position can be chosen twice.
kcSkipsNothing(bs, cnt, start, curr) ==
  IF start >= Len(bs) THEN <<>>
  ELSE LET myCurr == BitOr(curr, bs[start + 1])
       IN  (IF cnt = 1 THEN <<myCurr>>
            ELSE kcSkipsNothing(bs, cnt - 1, start, myCurr))
           \o kcSkipsNothing(bs, cnt, start + 1, curr)

RECURSIVE kc(_, _, _, _)
\* The inner function kc(count, start, curr): what the loop from index
\* `start` (0-based) pushes onto results, in push order.  The first part is
\* the loop body at i = start, the second the rest of the loop.
kc(bs, cnt, start, curr) ==
  IF start >= Len(bs) THEN <<>>
  ELSE LET myCurr == BitOr(curr, bs[start + 1])
       IN  (IF cnt = 1 THEN <<myCurr>>
            ELSE kc(bs, cnt - 1, start + 1, myCurr))
           \o kc(bs, cnt, start + 1, curr)

kCombinations(bs, cnt) ==
  IF cnt # 0 THEN kc(bs, cnt, 0, 0) ELSE <<>>

----------------------------------------------------------------------------
(* flattenCombos(posCombos): lines 72-89.                                  *)

RECURSIVE pc_dropsCurr(_, _, _, _)
\* pc as a plausible slip would write it: the accumulated mask is dropped
\* on the way down (pc(i + 1, opts[j]) instead of pc(i + 1, myCurr)).
pc_dropsCurr(groups, i, j, curr) ==
  IF j >= Len(groups[i + 1]) THEN <<>>
  ELSE LET myCurr == BitOr(curr, groups[i + 1][j + 1])
       IN  (IF i + 1 = Len(groups) THEN <<myCurr>>
            ELSE pc_dropsCurr(groups, i + 1, 0, groups[i + 1][j + 1]))
           \o pc_dropsCurr(groups, i, j + 1, curr)

RECURSIVE pc(_, _, _, _)
\* The inner function pc(i, curr), from its loop index j on (0-based): what
\* it pushes onto results, in push order.  The initial curr, the empty
\* array [], is 0 under the | operator.
pc(groups, i, j, curr) ==
  IF j >= Len(groups[i + 1]) THEN <<>>
  ELSE LET myCurr == BitOr(curr, groups[i + 1][j + 1])
       IN  (IF i + 1 = Len(groups) THEN <<myCurr>>
            ELSE pc(groups, i + 1, 0, myCurr))
           \o pc(groups, i, j + 1, curr)

flattenCombos(groups) ==
  IF Len(groups) > 0 THEN pc(groups, 0, 0, 0) ELSE <<>>

----------------------------------------------------------------------------
(* getBoardPositionMap(board): lines 17-27.                                *)

RECURSIVE bpmLoop(_, _, _)
\* The loop of getBoardPositionMap from index i (0-based) on, boardMap being
\* the map built so far.
bpmLoop(b, i, boardMap) ==
  IF i >= Len(b) THEN boardMap
  ELSE LET c  == b[i + 1]
           m1 == IF c \in DOMAIN boardMap THEN boardMap
                 ELSE [x \in DOMAIN boardMap \cup {c} |->
                         IF x = c THEN <<>> ELSE boardMap[x]]
       IN  bpmLoop(b, i + 1, [m1 EXCEPT ![c] = Append(@, Pow2(i))])

getBoardPositionMap(b) == bpmLoop(b, 0, [x \in {} |-> <<>>])

----------------------------------------------------------------------------
(* getMovesForBoard(board, wordStructs): lines 29-58.                      *)

RECURSIVE countByKeys(_, _)
\* The keys of _.countBy(letters, _.identity), in the order for..in visits
\* them: the order in which each letter first occurs.
countByKeys(letters, i) ==
  IF i > Len(letters) THEN <<>>
  ELSE IF \E j \in 1..(i - 1) : letters[j] = letters[i]
       THEN countByKeys(letters, i + 1)
       ELSE <<letters[i]>> \o countByKeys(letters, i + 1)

\* letterCounts[c] of _.countBy(letters, _.identity)
countBy(letters, c) == Cardinality({i \in 1..Len(letters) : letters[i] = c})

\* boardPositionMap[c] is undefined for a letter c the board does not hold,
\* and kCombinations(undefined, n) with n # 0 reads undefined.length in the
\* loop condition of kc (line 101): a TypeError, which nothing catches.
wordThrows(boardPositionMap, wordStruct) ==
  \E i \in 1..Len(wordStruct[2]) : wordStruct[2][i] \notin DOMAIN boardPositionMap

\* The posCombos list that the for..in loop of lines 42-47 builds.
posCombosOf(boardPositionMap, wordStruct) ==
  LET keys == countByKeys(wordStruct[2], 1)
  IN  [k \in 1..Len(keys) |->
         kCombinations(boardPositionMap[keys[k]], countBy(wordStruct[2], keys[k]))]

\* What one iteration of wordStructs.forEach pushes onto moves.
movesOfWord(boardPositionMap, wordStruct) ==
  LET flat == flattenCombos(posCombosOf(boardPositionMap, wordStruct))
  IN  [k \in 1..Len(flat) |-> <<wordStruct, flat[k]>>]

RECURSIVE forEachWord(_, _, _)
forEachWord(boardPositionMap, wss, i) ==
  IF i > Len(wss) THEN <<>>
  ELSE movesOfWord(boardPositionMap, wss[i]) \o forEachWord(boardPositionMap, wss, i + 1)

\* The outcome of the call: either it threw, or it returned moves.
getMovesForBoard(b, wss) ==
  LET boardPositionMap == getBoardPositionMap(b)
  IN  IF \E i \in 1..Len(wss) : wordThrows(boardPositionMap, wss[i])
      THEN [threw |-> TRUE,  moves |-> <<>>]
      ELSE [threw |-> FALSE, moves |-> forEachWord(boardPositionMap, wss, 1)]

----------------------------------------------------------------------------
(* The collaborators the file requires and the repository keeps elsewhere: *)
(* public/javascripts/letterpress-bitmask (countBits, getProtectedBitMask, *)
(* adjacent) and lib/letterpress-config (MAX_BITMASK, POSITIONS_TO_WIN).   *)

\* lib/adjacent.js: [position bit, bitmask of its grid neighbours]
adjacent ==
  << <<1, 34>>, <<2, 69>>, <<4, 138>>, <<8, 276>>, <<16, 520>>,
     <<32, 1089>>, <<64, 2210>>, <<128, 4420>>, <<256, 8840>>, <<512, 16656>>,
     <<1024, 34848>>, <<2048, 70720>>, <<4096, 141440>>, <<8192, 282880>>,
     <<16384, 532992>>, <<32768, 1115136>>, <<65536, 2263040>>,
     <<131072, 4526080>>, <<262144, 9052160>>, <<524288, 17055744>>,
     <<1048576, 2129920>>, <<2097152, 5308416>>, <<4194304, 10616832>>,
     <<8388608, 21233664>>, <<16777216, 8912896>> >>

\* the board has 25 squares
BOARD_SIZE == 25

\* all 25 bits set
MAX_BITMASK == 33554431

\* the mover wins a full board with at least this many squares
POSITIONS_TO_WIN == 13

RECURSIVE countBits(_)
\* population count
countBits(x) == IF x = 0 THEN 0 ELSE (x % 2) + countBits(x \div 2)

RECURSIVE protectedFrom(_, _)
protectedFrom(mask, k) ==
  IF k > Len(adjacent) THEN 0
  ELSE (IF BitAnd(adjacent[k][1], mask) # 0
           /\ BitAnd(adjacent[k][2], mask) = adjacent[k][2]
        THEN adjacent[k][1] ELSE 0)
       + protectedFrom(mask, k + 1)

\* the squares of mask all of whose grid neighbours are in mask too
getProtectedBitMask(mask) == protectedFrom(mask, 1)

----------------------------------------------------------------------------
(* getVulnerability(bitMask): lines 213-221.                               *)

RECURSIVE vulnerabilityFrom_countsOwn(_, _)
\* the loop with the complement forgotten: a[1] & bitMask
vulnerabilityFrom_countsOwn(bitMask, k) ==
  IF k > Len(adjacent) THEN 0
  ELSE (IF BitAnd(adjacent[k][1], bitMask) # 0
        THEN countBits(BitAnd(adjacent[k][2], bitMask)) ELSE 0)
       + vulnerabilityFrom_countsOwn(bitMask, k + 1)

RECURSIVE vulnerabilityFrom(_, _)
\* lpBitMask.adjacent.forEach from entry k (1-based) on
vulnerabilityFrom(bitMask, k) ==
  IF k > Len(adjacent) THEN 0
  ELSE (IF BitAnd(adjacent[k][1], bitMask) # 0
        THEN countBits(BitAndNot(adjacent[k][2], bitMask)) ELSE 0)
       + vulnerabilityFrom(bitMask, k + 1)

getVulnerability(bitMask) == vulnerabilityFrom(bitMask, 1)

----------------------------------------------------------------------------
(* getTopMoves(moves, oursBitMask, theirsBitMask): lines 117-163.          *)
(* A scored move is the 8-tuple of lines 144-153 (1-based here):           *)
(*   [1] newOursProtectedCount - newTheirsProtectedCount                   *)
(*   [2] newOursCount - newTheirsCount       [3] gameEnder                 *)
(*   [4] newOursBitMask   [5] newTheirsBitMask   [6] wordBitMask           *)
(*   [7] wordStruct       [8] vulnerability                                *)

\* line 128 without the protection of the opponent's squares
newOursOf_capturesAll(wordBitMask, theirsProtectedBitMask, ours) ==
  BitOr(wordBitMask, ours)

\* line 128
newOursOf(wordBitMask, theirsProtectedBitMask, ours) ==
  BitOr(BitAndNot(wordBitMask, theirsProtectedBitMask), ours)

\* line 130
newTheirsOf(theirs, newOursBitMask) == BitAndNot(theirs, newOursBitMask)

\* lines 138-141 with > for >=
gameEnderOf_strict(newOursBitMask, newTheirsBitMask, newOursCount) ==
  IF BitOr(newOursBitMask, newTheirsBitMask) = MAX_BITMASK
  THEN (IF newOursCount > POSITIONS_TO_WIN THEN 1 ELSE -1)
  ELSE 0

\* lines 138-141
gameEnderOf(newOursBitMask, newTheirsBitMask, newOursCount) ==
  IF BitOr(newOursBitMask, newTheirsBitMask) = MAX_BITMASK
  THEN (IF newOursCount >= POSITIONS_TO_WIN THEN 1 ELSE -1)
  ELSE 0

\* the function mapped over moves, lines 125-154
scoreMove(move, ours, theirs, theirsProtectedBitMask) ==
  LET wordStruct                == move[1]
      wordBitMask               == move[2]
      newOursBitMask            == newOursOf(wordBitMask, theirsProtectedBitMask, ours)
      newOursProtectedBitMask   == getProtectedBitMask(newOursBitMask)
      newTheirsBitMask          == newTheirsOf(theirs, newOursBitMask)
      newTheirsProtectedBitMask == getProtectedBitMask(newTheirsBitMask)
      newOursCount              == countBits(newOursBitMask)
      newTheirsCount            == countBits(newTheirsBitMask)
      newOursProtectedCount     == countBits(newOursProtectedBitMask)
      newTheirsProtectedCount   == countBits(newTheirsProtectedBitMask)
      vulnerability             == getVulnerability(newOursProtectedBitMask)
      gameEnder                 == gameEnderOf(newOursBitMask, newTheirsBitMask, newOursCount)
  IN  << newOursProtectedCount - newTheirsProtectedCount,
         newOursCount - newTheirsCount,
         gameEnder,
         newOursBitMask,
         newTheirsBitMask,
         wordBitMask,
         wordStruct,
         vulnerability >>

\* byBestMove with the vulnerability term reversed (b[7] - a[7])
byBestMove_mostVulnerable(a, b) ==
  IF a[3] # b[3] THEN b[3] - a[3]
  ELSE IF a[1] # b[1] THEN b[1] - a[1]
  ELSE IF a[8] # b[8] THEN b[8] - a[8]
  ELSE IF a[2] # b[2] THEN b[2] - a[2]
  ELSE a[7][3] - b[7][3]

\* byBestMove(a, b), lines 173-181: the first non-zero difference of the
\* || chain, or the last one
byBestMove(a, b) ==
  IF b[3] - a[3] # 0 THEN b[3] - a[3]
  ELSE IF b[1] - a[1] # 0 THEN b[1] - a[1]
  ELSE IF a[8] - b[8] # 0 THEN a[8] - b[8]
  ELSE IF b[2] - a[2] # 0 THEN b[2] - a[2]
  ELSE a[7][3] - b[7][3]

RECURSIVE sortOrders(_, _)
\* Array.prototype.sort(byBestMove): the orders (as sequences of indices of
\* ms) that the sort may leave.  The comparator is a consistent ordering, so
\* the result is sorted under it; the order of elements that compare equal
\* is the engine's choice (the sort need not be stable), hence a set.
sortOrders(ms, idx) ==
  IF idx = {} THEN {<<>>}
  ELSE LET firsts == {i \in idx : \A j \in idx : byBestMove(ms[i], ms[j]) <= 0}
       IN  UNION {{<<i>> \o s : s \in sortOrders(ms, idx \ {i})} : i \in firsts}

sortOutcomes(ms) ==
  {[k \in 1..Len(ms) |-> ms[o[k]]] : o \in sortOrders(ms, 1..Len(ms))}

RECURSIVE filterFrom_noSeen(_, _, _, _)
\* the filter without the seen[] test
filterFrom_noSeen(ms, i, latestScore, seen) ==
  IF i > Len(ms) THEN <<>>
  ELSE LET move == ms[i]
       IN  IF move[1] + move[2] = latestScore
           THEN filterFrom_noSeen(ms, i + 1, latestScore, seen)
           ELSE <<move>> \o filterFrom_noSeen(ms, i + 1, move[1] + move[2],
                                             seen \cup {move[7][1]})

RECURSIVE filterFrom(_, _, _, _)
\* the .filter callback of lines 192-199 applied from element i (1-based)
\* on, with the closure variables latestScore and seen as they stand
filterFrom(ms, i, latestScore, seen) ==
  IF i > Len(ms) THEN <<>>
  ELSE LET move == ms[i]
       IN  IF move[7][1] \in seen \/ move[1] + move[2] = latestScore
           THEN filterFrom(ms, i + 1, latestScore, seen)
           ELSE <<move>> \o filterFrom(ms, i + 1, move[1] + move[2],
                                      seen \cup {move[7][1]})

\* filterMoves(moves), lines 185-201: latestScore starts at 0, seen empty
filterMoves(ms) == filterFrom(ms, 1, 0, {})

\* .slice(0, 19) of line 157
SLICE_END == 19

slice(ms) == SubSeq(ms, 1, IF Len(ms) < SLICE_END THEN Len(ms) ELSE SLICE_END)

\* the .map callback of lines 158-161:
\* ["word", wordBitMask, newOursBitMask, newTheirsBitMask, gameEnder]
toOutput(move) == <<move[7][1], move[6], move[4], move[5], move[3]>>

----------------------------------------------------------------------------
(* The calls, as actions.                                                  *)

\* nothing has been called yet
GenIdle == moves = <<>> /\ threw = FALSE
TopIdle ==
  /\ oursBitMask = 0 /\ theirsBitMask = 0
  /\ movesScoredForGameState = <<>> /\ sortedMoves = <<>>
  /\ filteredMoves = <<>> /\ topMoves = <<>>
KcIdle == kcResults = <<>>
FcIdle == fcResults = <<>>

\* moves = getMovesForBoard(board, wordStructs), or the TypeError it raises
GetMovesForBoard ==
  /\ phase = "start"
  /\ \E r \in {getMovesForBoard(board, wordStructs)} :
        /\ moves' = r.moves
        /\ threw' = r.threw
        /\ phase' = IF r.threw THEN "threw" ELSE "moves"
  /\ UNCHANGED <<board, wordStructs, topVars, kcVars, fcVars>>

\* topMoves = getTopMoves(moves, ours, theirs); the intermediate lists of
\* the call are kept as they were at lines 154, 156 (sort) and 156 (filter)
GetTopMoves(ours, theirs) ==
  /\ phase = "moves"
  /\ oursBitMask' = ours
  /\ theirsBitMask' = theirs
  /\ LET theirsProtectedBitMask == getProtectedBitMask(theirs)
     IN  movesScoredForGameState' =
           [k \in 1..Len(moves) |-> scoreMove(moves[k], ours, theirs, theirsProtectedBitMask)]
  /\ sortedMoves' \in sortOutcomes(movesScoredForGameState')
  /\ filteredMoves' = filterMoves(sortedMoves')
  /\ topMoves' = LET kept == slice(filteredMoves')
                 IN  [k \in 1..Len(kept) |-> toOutput(kept[k])]
  /\ phase' = "top"
  /\ UNCHANGED <<genVars, kcVars, fcVars>>

\* kcResults = kCombinations(bits, count)
KCombinations ==
  /\ phase = "start"
  /\ kcResults' = kCombinations(bits, count)
  /\ phase' = "kc"
  /\ UNCHANGED <<bits, count, genVars, topVars, fcVars>>

\* fcResults = flattenCombos(posCombos)
FlattenCombos ==
  /\ phase = "start"
  /\ fcResults' = flattenCombos(posCombos)
  /\ phase' = "fc"
  /\ UNCHANGED <<posCombos, genVars, topVars, kcVars>>

----------------------------------------------------------------------------
(* Inputs.                                                                 *)

SeqsUpTo(S, n) == UNION {[1..k -> S] : k \in 0..n}

\* --- the pipeline on the 5 x 5 board ---

Board25 ==
  <<"a","b","c","d","e","f","g","h","i","j","k","l","m",
    "n","o","p","q","r","s","t","u","v","w","x","y">>

\* the same with a second "a" in the last square
BoardTwoA == [Board25 EXCEPT ![25] = "a"]

Boards == {Board25, BoardTwoA}

\* longest word of the long word list
MaxPrefix == 21

\* words per short word list
MaxWords == 2

\* wordStruct of a word whose letters are taken in the order of its text
Word(text, rank) == <<text, text, rank>>

\* "a", "ab", "abc", ... : the long list, most common first
LongList == [k \in 1..MaxPrefix |-> Word(SubSeq(Board25, 1, k), k)]

ShortDict ==
  { Word(<<"c","a","b">>, 1), Word(<<"b","a","c">>, 2), Word(<<"c","g">>, 3),
    Word(<<"t","x","y">>, 4), Word(<<"a","z">>, 5), Word(<<>>, 6) }

WordLists == SeqsUpTo(ShortDict, MaxWords) \cup {LongList}

\* squares lo..hi
Squares(lo, hi) == Pow2(hi + 1) - Pow2(lo)

\* <<oursBitMask, theirsBitMask>>: disjoint, within the 25 squares
Ownerships ==
  { <<0, 0>>,
    <<0, 35>>,                              \* theirs: 0, 1, 5 (square 0 protected)
    <<35, 0>>,
    <<0, Squares(22, 24)>>,
    <<Squares(3, 24), 0>>,
    <<0, Squares(3, 24)>>,
    <<Squares(3, 12), Squares(13, 24)>>,    \* 10 and 12 squares
    <<Squares(3, 11), Squares(12, 24)>>,    \* 9 and 13 squares
    <<Squares(5, 9), 35>> }

Init ==
  /\ phase = "start"
  /\ board \in Boards /\ wordStructs \in WordLists
  /\ GenIdle /\ TopIdle
  /\ bits = <<>> /\ count = 0 /\ KcIdle
  /\ posCombos = <<>> /\ FcIdle

Next ==
  \/ GetMovesForBoard
  \/ \E o \in Ownerships : GetTopMoves(o[1], o[2])

Spec == Init /\ [][Next]_vars

\* --- getMovesForBoard alone, on every small board ---

Alphabet == {"a", "b", "c"}

MaxBoardLen == 4

MaxWordLen == 3

SmallBoards == SeqsUpTo(Alphabet, MaxBoardLen)

SmallWords == {Word(w, 1) : w \in SeqsUpTo(Alphabet, MaxWordLen)}

\* the words a list may hold beside one arbitrary word
Companions == {Word(<<"a">>, 2), Word(<<"b","a">>, 3)}

SmallWordLists ==
  {<<>>} \cup {<<w>> : w \in SmallWords}
         \cup {<<w, c>> : w \in SmallWords, c \in Companions}
         \cup {<<c, w>> : w \in SmallWords, c \in Companions}

InitMoves ==
  /\ phase = "start"
  /\ board \in SmallBoards /\ wordStructs \in SmallWordLists
  /\ GenIdle /\ TopIdle
  /\ bits = <<>> /\ count = 0 /\ KcIdle
  /\ posCombos = <<>> /\ FcIdle

SpecMoves == InitMoves /\ [][GetMovesForBoard]_vars

\* --- kCombinations alone ---

NumPositions == 4

MaxCount == 5

\* every list of distinct single-bit values, in any order
BitLists ==
  {s \in SeqsUpTo({Pow2(i) : i \in 0..(NumPositions - 1)}, NumPositions) :
     \A i, j \in 1..Len(s) : i # j => s[i] # s[j]}

InitKC ==
  /\ phase = "start"
  /\ bits \in BitLists /\ count \in 0..MaxCount /\ KcIdle
  /\ board = <<>> /\ wordStructs = <<>> /\ GenIdle /\ TopIdle
  /\ posCombos = <<>> /\ FcIdle

SpecKC == InitKC /\ [][KCombinations]_vars

\* --- flattenCombos alone ---

MaxGroups == 3

MaxGroupLen == 2

GroupMasks == {1, 2, 4}

\* a group lists distinct choices, in any order
Groups ==
  {g \in SeqsUpTo(GroupMasks, MaxGroupLen) :
     \A i, j \in 1..Len(g) : i # j => g[i] # g[j]}

GroupLists == SeqsUpTo(Groups, MaxGroups)

InitFC ==
  /\ phase = "start"
  /\ posCombos \in GroupLists /\ FcIdle
  /\ board = <<>> /\ wordStructs = <<>> /\ GenIdle /\ TopIdle
  /\ bits = <<>> /\ count = 0 /\ KcIdle

SpecFC == InitFC /\ [][FlattenCombos]_vars

----------------------------------------------------------------------------
(* What the claims are stated with: squares as sets, independent of the    *)
(* bitwise operators above.                                                *)

\* the squares (bit positions below n) set in mask m
SquaresOf(m, n) == {i \in 0..(n - 1) : (m \div Pow2(i)) % 2 = 1}

BitSet(m) == SquaresOf(m, BOARD_SIZE)

\* the grid neighbours of square i, from the adjacency table
Neighbours(i) == BitSet(adjacent[i + 1][2])

\* the squares of S all of whose neighbours are in S
ProtectedSquares(S) == {i \in S : Neighbours(i) \subseteq S}

\* how often letter c occurs in the sequence s
Occurrences(s, c) == Cardinality({i \in 1..Len(s) : s[i] = c})

\* the board holds every letter of the word as often as the word needs it
Placeable(b, letters) ==
  /\ letters # <<>>
  /\ \A i \in 1..Len(letters) :
       Occurrences(letters, letters[i]) <= Occurrences(b, letters[i])

\* the masks whose squares carry exactly the letters of the word
ValidMasks(b, letters) ==
  {m \in 0..(Pow2(Len(b)) - 1) :
     LET sq == SquaresOf(m, Len(b))
     IN  /\ Cardinality(sq) = Len(letters)
         /\ \A i \in 1..Len(letters) :
              Cardinality({p \in sq : b[p + 1] = letters[i]})
                = Occurrences(letters, letters[i])}

\* the calls have returned (or thrown)
GenDone == phase # "start"

----------------------------------------------------------------------------
(* C1: for every board and word list getMovesForBoard completes without    *)
(* raising a fault; a word that needs a letter the board lacks, or more    *)
(* copies of a letter than the board holds, or has no letters, contributes *)
(* no move, and every other word of the list contributes its moves.        *)
C1_NoFaultUnplaceableSilent ==
  GenDone =>
    /\ ~threw
    /\ \A i \in 1..Len(wordStructs) :
         LET w == wordStructs[i]
             mine == {k \in 1..Len(moves) : moves[k][1] = w}
         IN  IF Placeable(board, w[2]) THEN mine # {} ELSE mine = {}

(* C2: for every board B and non-empty word W of the list, the masks        *)
(* emitted for W are exactly the masks whose squares carry the multiset of *)
(* letters of W, each once (per occurrence of W in the list); so each has  *)
(* len(W) bits, all below 2^boardSize; "abcb" with "cab" gives 7 and 13.   *)
C2_PlacementsExact ==
  GenDone =>
    /\ \A i \in 1..Len(wordStructs) :
         LET w == wordStructs[i]
         IN  w[2] # <<>> =>
               /\ \A k \in 1..Len(moves) :
                    moves[k][1] = w => moves[k][2] \in ValidMasks(board, w[2])
               /\ \A m \in ValidMasks(board, w[2]) :
                    Cardinality({k \in 1..Len(moves) : moves[k] = <<w, m>>})
                      = Occurrences(wordStructs, w)
    /\ (board = <<"a","b","c","b">> /\ wordStructs = <<Word(<<"c","a","b">>, 1)>>)
         => (moves = << <<Word(<<"c","a","b">>, 1), 7>>, <<Word(<<"c","a","b">>, 1), 13>> >>)

\* The same of the calls that return: the placements are exact whenever no
\* word of the list needs a letter the board lacks.
PlacementsExactUnlessThrown == threw \/ C2_PlacementsExact

----------------------------------------------------------------------------
RECURSIVE Binom(_, _)
\* C(n, k)
Binom(n, k) ==
  IF k = 0 THEN 1 ELSE IF n = 0 THEN 0 ELSE Binom(n - 1, k - 1) + Binom(n - 1, k)

\* the indices (1-based) of the elements of bits that mask m holds
ChosenIndices(m) == {i \in 1..Len(bits) : (m \div bits[i]) % 2 = 1}

RECURSIVE SumOfBits(_)
SumOfBits(I) ==
  IF I = {} THEN 0 ELSE LET i == CHOOSE x \in I : TRUE IN bits[i] + SumOfBits(I \ {i})

\* A before B in the lexicographic order of their ascending index lists
\* (A and B of the same size): the least index in only one of them is in A
LexBefore(A, B) ==
  /\ A # B
  /\ LET D == (A \ B) \cup (B \ A) IN (CHOOSE x \in D : \A y \in D : x <= y) \in A

\* each result is the OR of exactly count distinct elements of bits, and
\* the results come in lexicographic order of the chosen indices
KcEachAndOrder ==
  /\ \A r \in 1..Len(kcResults) :
       LET I == ChosenIndices(kcResults[r])
       IN  Cardinality(I) = count /\ kcResults[r] = SumOfBits(I)
  /\ \A r, t \in 1..Len(kcResults) :
       r < t => /\ kcResults[r] # kcResults[t]
                /\ LexBefore(ChosenIndices(kcResults[r]), ChosenIndices(kcResults[t]))

(* C3 as stated: for every list of distinct single-bit values and every    *)
(* k >= 0, kCombinations returns exactly C(len, k) pairwise distinct       *)
(* masks, each the OR of exactly k distinct elements, in lexicographic     *)
(* order of the chosen indices; and an empty list when k = 0 or k > len.   *)
C3_AsStated ==
  phase = "kc" =>
    /\ Len(kcResults) = Binom(Len(bits), count)
    /\ KcEachAndOrder
    /\ (count = 0 \/ count > Len(bits)) => kcResults = <<>>

(* C3, amended: the same for every k >= 1; for k = 0 the result is the     *)
(* empty list (not the C(len, 0) = 1 empty selection).                     *)
C3_CombinationsForPositiveK ==
  phase = "kc" =>
    /\ count >= 1 => Len(kcResults) = Binom(Len(bits), count)
    /\ KcEachAndOrder
    /\ (count = 0 \/ count > Len(bits)) => kcResults = <<>>

C3_Witness ==
  /\ phase = "kc" /\ Len(bits) = NumPositions /\ count = 2
  /\ Len(kcResults) = Binom(NumPositions, 2)

----------------------------------------------------------------------------
\* a choice of one element (by index) from every group
Choices ==
  {f \in [1..Len(posCombos) -> 1..MaxGroupLen] :
     \A g \in 1..Len(posCombos) : f[g] <= Len(posCombos[g])}

RECURSIVE SizeProduct(_)
\* the product of the sizes of the groups from group g on
SizeProduct(g) ==
  IF g > Len(posCombos) THEN 1 ELSE Len(posCombos[g]) * SizeProduct(g + 1)

RECURSIVE DepthFirstRank(_, _)
\* the place (0-based) of choice f among all choices, the first group
\* varying slowest
DepthFirstRank(f, g) ==
  IF g > Len(posCombos) THEN 0
  ELSE (f[g] - 1) * SizeProduct(g + 1) + DepthFirstRank(f, g + 1)

RECURSIVE SumOfSquares(_)
SumOfSquares(S) ==
  IF S = {} THEN 0 ELSE LET i == CHOOSE x \in S : TRUE IN Pow2(i) + SumOfSquares(S \ {i})

\* the OR of the chosen elements
OrOfChoice(f) ==
  SumOfSquares(UNION {BitSet(posCombos[g][f[g]]) : g \in 1..Len(posCombos)})

FcExample ==
  posCombos = << <<1>>, <<2, 4>> >> => fcResults = <<3, 5>>

FcEmptyCases ==
  (posCombos = <<>> \/ \E g \in 1..Len(posCombos) : posCombos[g] = <<>>)
    => fcResults = <<>>

----------------------------------------------------------------------------
(* getTopMoves has returned *)
TopDone == phase = "top"

Scored == {movesScoredForGameState[k] : k \in 1..Len(movesScoredForGameState)}

(* C4: for every raw move, oursBitMask and theirsBitMask being disjoint,   *)
(* no protected square of theirsBitMask is in newOurs and every one is     *)
(* still in newTheirs: a word laid over a protected square of the opponent *)
(* does not capture it.                                                    *)
C4_ProtectedSquaresNotCaptured ==
  (TopDone /\ BitSet(oursBitMask) \cap BitSet(theirsBitMask) = {}) =>
    \A sc \in Scored :
      LET prot == ProtectedSquares(BitSet(theirsBitMask))
      IN  /\ prot \cap BitSet(sc[4]) = {}
          /\ prot \subseteq BitSet(sc[5])

\* a word was laid over a protected square of the opponent
C4_Witness ==
  /\ TopDone
  /\ \E sc \in Scored :
       ProtectedSquares(BitSet(theirsBitMask)) \cap BitSet(sc[6]) # {}

(* C5: for every scored move, gameEnder is +1 exactly when newOurs and     *)
(* newTheirs together cover the full board and newOurs has at least        *)
(* winThreshold squares, -1 exactly when they cover it and newOurs has     *)
(* fewer, and 0 exactly when some square is claimed by neither side.       *)
C5_GameEnder ==
  TopDone =>
    \A sc \in Scored :
      LET full  == BitSet(sc[4]) \cup BitSet(sc[5]) = 0..(BOARD_SIZE - 1)
          nOurs == Cardinality(BitSet(sc[4]))
      IN  /\ sc[3] = 1  <=> (full /\ nOurs >= POSITIONS_TO_WIN)
          /\ sc[3] = -1 <=> (full /\ nOurs < POSITIONS_TO_WIN)
          /\ sc[3] = 0  <=> (\E i \in 0..(BOARD_SIZE - 1) :
                               i \notin BitSet(sc[4]) /\ i \notin BitSet(sc[5]))
          /\ sc[4] <= MAX_BITMASK /\ sc[5] <= MAX_BITMASK

\* a move that fills the board with exactly winThreshold squares for the mover
C5_Witness ==
  /\ TopDone
  /\ \E sc \in Scored :
       sc[3] = 1 /\ Cardinality(BitSet(sc[4])) = POSITIONS_TO_WIN

(* C6: the list getTopMoves returns has at most 19 entries, and no two of  *)
(* them carry the same word text.                                          *)
C6_AtMost19DistinctWords ==
  TopDone =>
    /\ Len(topMoves) <= 19
    /\ \A i, j \in 1..Len(topMoves) : i # j => topMoves[i][1] # topMoves[j][1]

\* more than 19 moves survived the filter, and 19 were returned
C6_Witness ==
  TopDone /\ Len(filteredMoves) > 19 /\ Len(topMoves) = 19

\* the ranking key of a scored move: smaller is better, compared
\* lexicographically (gameEnder descending, protectedDiff descending,
\* vulnerability ascending, countDiff descending, rank ascending)
RankKey(m) == <<-m[3], -m[1], m[8], -m[2], m[7][3]>>

\* x is strictly better than y under the chain
StrictlyBetter(x, y) ==
  \E p \in 1..5 :
    /\ RankKey(x)[p] < RankKey(y)[p]
    /\ \A q \in 1..(p - 1) : RankKey(x)[q] = RankKey(y)[q]

(* C7: in the returned list, for every pair of entries at positions i < j, *)
(* entry i is not worse than entry j under the chain: no entry is strictly *)
(* dominated by a later one.  (Entry k of the returned list is the output  *)
(* form of the k-th move the filter kept.)                                 *)
C7_NoEntryDominatedByLater ==
  TopDone =>
    /\ Len(topMoves) <= Len(filteredMoves)
    /\ \A i \in 1..Len(topMoves) :
         topMoves[i] = <<filteredMoves[i][7][1], filteredMoves[i][6],
                         filteredMoves[i][4], filteredMoves[i][5], filteredMoves[i][3]>>
    /\ \A i, j \in 1..Len(topMoves) :
         i < j => ~StrictlyBetter(filteredMoves[j], filteredMoves[i])

\* two returned moves that the vulnerability decides between: the earlier
\* one is the less vulnerable, although it claims fewer squares
C7_Witness ==
  /\ TopDone
  /\ \E i, j \in 1..Len(topMoves) :
       /\ i < j
       /\ filteredMoves[i][3] = filteredMoves[j][3]
       /\ filteredMoves[i][1] = filteredMoves[j][1]
       /\ filteredMoves[i][8] < filteredMoves[j][8]
       /\ filteredMoves[i][2] < filteredMoves[j][2]

\* the sum, over the squares b of P, of the neighbours of b outside Q
NeighboursOutside(P, Q) ==
  Cardinality({bn \in P \X (0..(BOARD_SIZE - 1)) :
                 bn[2] \in Neighbours(bn[1]) /\ bn[2] \notin Q})

C10_FirstSortedMoveKept ==
  (TopDone /\ moves # <<>>) =>
    /\ topMoves # <<>>
    /\ topMoves[1] = <<sortedMoves[1][7][1], sortedMoves[1][6],
                       sortedMoves[1][4], sortedMoves[1][5], sortedMoves[1][3]>>

=============================================================================
